---- MODULE Spec2Model ----
(***************************************************************************)
(* The credential guard of the auth-app backend: the Express middleware    *)
(* authMiddleware (backend/middleware/authMiddleware.js), which reads the  *)
(* Authorization header, strips the "Bearer " scheme, verifies the token   *)
(* with jsonwebtoken's jwt.verify against process.env.JWT_SECRET and       *)
(* either attaches the decoded claims to req.user and calls next(), or     *)
(* answers with a rejection.                                               *)
(*                                                                         *)
(* Strings are modelled as sequences of chunks.  A chunk is either a       *)
(* literal piece of text or one compact JWS (three base64url segments);    *)
(* a compact JWS holds no space, so the text "Bearer " never occurs        *)
(* inside it nor across a chunk boundary.                                  *)
(***************************************************************************)
EXTENDS Integers, Sequences, FiniteSets, TLC

\* ------------------------------------------------------------- bounds
\* Longest Authorization header value, in chunks.
MaxLen == 2
\* Last second of the clock; expires-at values range over 1..MaxTime.
MaxTime == 2

\* ------------------------------------------------------ value domains
UserIds == {"u1", "u2"}
\* Values process.env.JWT_SECRET can hold when the process starts; "" stands
\* for both the empty and the unset variable (both are falsy in jwt.verify).
SecretValues == {"", "S", "T"}
\* Keys a token can have been signed with.
SigningKeys == {"S", "T"}

\* The literal text chunks a header value is built from.
BearerPrefix == "Bearer "
Literals == {BearerPrefix, "bearer "}

\* ---------------------------------------------------- tokens (issuer)
\* The claims the issuer encodes: a user identifier, issued-at, expires-at.
IssuedClaims == [userId : UserIds, iat : {0}, exp : 1..MaxTime]

\* JSON.stringify of a claims object: the text of the payload segment.
EncodePayload(claims) ==
    [json |-> TRUE,
     pairs |-> << <<"userId", claims.userId>>, <<"iat", claims.iat>>, <<"exp", claims.exp>> >>]

\* JSON.parse of a payload segment that is valid JSON: the object with one
\* field per member of the text.
FieldOf(pairs, key) == (CHOOSE i \in 1..Len(pairs) : pairs[i][1] = key)
DecodePayload(payload) ==
    [userId |-> payload.pairs[FieldOf(payload.pairs, "userId")][2],
     iat |-> payload.pairs[FieldOf(payload.pairs, "iat")][2],
     exp |-> payload.pairs[FieldOf(payload.pairs, "exp")][2]]

\* A payload segment whose text is not JSON.
GarbledPayload == [json |-> FALSE, pairs |-> << >>]

\* The MAC of a signing input under a key (an ideal MAC: equal only for
\* equal key, algorithm and input).
Hmac(alg, key, hdr, payload) ==
    [alg |-> alg, key |-> key, hdr |-> hdr, payload |-> payload]
\* The empty signature segment of an unsigned token.
EmptySignature == [empty |-> TRUE]

\* jwt.sign(claims, key): HS256, typ JWT.
JwtHeader(alg) == [alg |-> alg, typ |-> "JWT"]
jwtSign(claims, key) ==
    [hdr |-> JwtHeader("HS256"),
     payload |-> EncodePayload(claims),
     sig |-> Hmac("HS256", key, JwtHeader("HS256"), EncodePayload(claims))]

IssuedTokens == {jwtSign(c, k) : c \in IssuedClaims, k \in SigningKeys}

\* Tokens a client can craft without the issuer.
SomeClaims == [userId |-> "u1", iat |-> 0, exp |-> MaxTime]
OtherClaims == [userId |-> "u2", iat |-> 0, exp |-> MaxTime]
\* payload replaced after signing
TamperedToken ==
    [hdr |-> JwtHeader("HS256"),
     payload |-> EncodePayload(OtherClaims),
     sig |-> Hmac("HS256", "S", JwtHeader("HS256"), EncodePayload(SomeClaims))]
\* alg "none", no signature
UnsignedToken ==
    [hdr |-> JwtHeader("none"), payload |-> EncodePayload(SomeClaims), sig |-> EmptySignature]
\* an algorithm the verifier does not allow for a shared secret
ForeignAlgToken ==
    [hdr |-> JwtHeader("RS256"),
     payload |-> EncodePayload(SomeClaims),
     sig |-> Hmac("RS256", "S", JwtHeader("RS256"), EncodePayload(SomeClaims))]
\* typ JWT with a payload segment that is not JSON
GarbledToken ==
    [hdr |-> JwtHeader("HS256"),
     payload |-> GarbledPayload,
     sig |-> Hmac("HS256", "S", JwtHeader("HS256"), GarbledPayload)]
CraftedTokens == {TamperedToken, UnsignedToken, ForeignAlgToken, GarbledToken}

Tokens == IssuedTokens \cup CraftedTokens

\* ------------------------------------------------------------ strings
NoJwt == [none |-> TRUE]
Lit(text) == [text |-> text, jwt |-> NoJwt]
Jwt(tok) == [text |-> "", jwt |-> tok]
Chunks == {Lit(t) : t \in Literals} \cup {Jwt(t) : t \in Tokens}
IsJwt(chunk) == chunk.text = ""

SeqsUpTo(S, n) == UNION {[1..k -> S] : k \in 0..n}
JwtCount(s) == Cardinality({i \in 1..Len(s) : IsJwt(s[i])})
\* Header values: up to MaxLen chunks, at most one of them a token.
HeaderValues == {s \in SeqsUpTo(Chunks, MaxLen) : JwtCount(s) <= 1}

\* String.prototype.replace(pattern, '') with a string pattern: the first
\* occurrence of the pattern is removed, wherever it is.
RECURSIVE Replace(_, _)
Replace(s, pattern) ==
    IF s = << >> THEN << >>
    ELSE IF Head(s) = Lit(pattern) THEN Tail(s)
    ELSE <<Head(s)>> \o Replace(Tail(s), pattern)

StartsWith(s, pattern) == Len(s) >= 1 /\ s[1] = Lit(pattern)

\* -------------------------------------------------- jwt.verify (line 21)
\* The result of a call: the name of the error thrown ("" when none is) and
\* the value returned.
NoClaims == [userId |-> "", iat |-> 0, exp |-> 0]
Throw(name) == [thrown |-> name, value |-> NoClaims]
Return(value) == [thrown |-> "", value |-> value]

\* The algorithms jwt.verify allows when the key is a shared secret.
HS_ALGS == {"HS256", "HS384", "HS512"}

\* jwt.verify(token, secretOrPublicKey) of jsonwebtoken 9, called without
\* options or callback.  Each step below gives the name of the error it
\* throws, or "" when it passes.

\* The string must be a compact JWS of three base64url segments (else "jwt
\* malformed" / "invalid token"); the payload of a typ-JWT token is parsed
\* with JSON.parse, whose SyntaxError is rethrown as it is.
DecodeError(token) ==
    IF ~(Len(token) = 1 /\ IsJwt(token[1])) THEN "JsonWebTokenError"
    ELSE IF token[1].jwt.hdr.typ = "JWT" /\ ~token[1].jwt.payload.json THEN "SyntaxError"
    ELSE ""

\* A signature needs a secret ("secret or public key must be provided") and
\* a secret needs a signature ("jwt signature is required"); unsigned tokens
\* need algorithms: ["none"]; the algorithm must be an allowed one ("invalid
\* algorithm"); the signature must match ("invalid signature").
SignatureError(jws, secretOrPublicKey) ==
    LET hasSignature == jws.sig # EmptySignature
    IN IF ~hasSignature /\ secretOrPublicKey # "" THEN "JsonWebTokenError"
       ELSE IF hasSignature /\ secretOrPublicKey = "" THEN "JsonWebTokenError"
       ELSE IF ~hasSignature THEN "JsonWebTokenError"
       ELSE IF jws.hdr.alg \notin HS_ALGS THEN "JsonWebTokenError"
       ELSE IF jws.sig # Hmac(jws.hdr.alg, secretOrPublicKey, jws.hdr, jws.payload)
       THEN "JsonWebTokenError"
       ELSE ""

\* exp must not be reached: clockTimestamp >= payload.exp is "jwt expired".
ClaimsError(payload, clockTimestamp) ==
    IF clockTimestamp >= payload.exp THEN "TokenExpiredError" ELSE ""

jwtVerify(token, secretOrPublicKey, clockTimestamp) ==
    IF DecodeError(token) # "" THEN Throw(DecodeError(token))
    ELSE IF SignatureError(token[1].jwt, secretOrPublicKey) # ""
    THEN Throw(SignatureError(token[1].jwt, secretOrPublicKey))
    ELSE LET payload == DecodePayload(token[1].jwt.payload)
         IN IF ClaimsError(payload, clockTimestamp) # ""
            THEN Throw(ClaimsError(payload, clockTimestamp))
            ELSE Return(payload)

\* ------------------------------------------------ authMiddleware (3-42)
\* What an invocation does, in order: calls of jwt.verify, of next(), and
\* responses sent with res.status(..).json(..).
VerifyCall(token) == [kind |-> "verify", status |-> 0, message |-> "", arg |-> token]
NextCall == [kind |-> "next", status |-> 0, message |-> "", arg |-> << >>]
Response(status, message) ==
    [kind |-> "response", status |-> status, message |-> message, arg |-> << >>]

MsgNoToken == "Access denied. No token provided."
MsgFormat == "Access denied. Invalid token format."
MsgInvalid == "Access denied. Invalid token."
MsgExpired == "Access denied. Token expired."
MsgServer == "Server error during authentication."

\* Mutants of the catch block: one branch on the error's name is missing.
CatchResponseNoInvalidBranch(errorName) ==
    IF errorName = "TokenExpiredError" THEN Response(401, MsgExpired)
    ELSE Response(500, MsgServer)
CatchResponseNoExpiredBranch(errorName) ==
    IF errorName = "JsonWebTokenError" THEN Response(401, MsgInvalid)
    ELSE Response(500, MsgServer)

\* The catch block (lines 25-41): the response chosen by the error's name.
CatchResponse(errorName) ==
    IF errorName = "JsonWebTokenError" THEN Response(401, MsgInvalid)
    ELSE IF errorName = "TokenExpiredError" THEN Response(401, MsgExpired)
    ELSE Response(500, MsgServer)

\* What the downstream handler reached through next() does: it returns, or
\* an error of the given name escapes from next().
DownstreamOutcomes == {"returns", "Error", "JsonWebTokenError"}

\* A request: whether it carries an Authorization header, and its value.
NoRequest == [present |-> FALSE, value |-> << >>]
Requests == {NoRequest} \cup {[present |-> TRUE, value |-> v] : v \in HeaderValues}

\* A mutant: the presence check is missing.
MissingHeaderUnchecked(req) == FALSE

\* !authHeader (line 7): req.header() gave undefined, or the empty string.
MissingHeader(req) == ~req.present \/ req.value = << >>

\* A mutant: the header value is used as it is.
ExtractTokenUnstripped(authHeader) == authHeader

\* authHeader.replace('Bearer ', '') (line 13).
ExtractToken(authHeader) == Replace(authHeader, BearerPrefix)

\* The try block and its catch: one whole call authMiddleware(req, res, next).
\* user is req.user afterwards (<< >> while unset).
authMiddleware(req, secret, clockTimestamp, downstream) ==
    IF MissingHeader(req)                                       \* line 7
    THEN [user |-> << >>, events |-> <<Response(401, MsgNoToken)>>]
    ELSE LET token == ExtractToken(req.value)                   \* line 13
         IN IF token = << >>                                    \* line 15
            THEN [user |-> << >>, events |-> <<Response(401, MsgFormat)>>]
            ELSE LET decoded == jwtVerify(token, secret, clockTimestamp)   \* line 21
                 IN IF decoded.thrown # ""
                    THEN [user |-> << >>,
                          events |-> <<VerifyCall(token), CatchResponse(decoded.thrown)>>]
                    ELSE IF downstream = "returns"              \* lines 22-23
                    THEN [user |-> <<decoded.value>>,
                          events |-> <<VerifyCall(token), NextCall>>]
                    ELSE [user |-> <<decoded.value>>,
                          events |-> <<VerifyCall(token), NextCall, CatchResponse(downstream)>>]

\* ------------------------------------------------------------- state
VARIABLES
    JWT_SECRET,   \* process.env.JWT_SECRET, set before the server starts
    clock,        \* the current time, in seconds
    cur,          \* the invocation in hand: the request, and what the guard did
    prev          \* an invocation handled earlier (kept in SpecPair only)

vars == <<JWT_SECRET, clock, cur, prev>>

NoInvocation ==
    [handled |-> FALSE, req |-> NoRequest, at |-> 0, downstream |-> "returns",
     user |-> << >>, events |-> << >>]

\* A mutant: a token is accepted once; presenting the token of the invocation
\* before again is answered as an invalid token.
InvocationOneTimeUse(req, at, downstream) ==
    LET out == authMiddleware(req, JWT_SECRET, at, downstream)
        replay == cur.handled /\ cur.user # << >> /\ cur.req = req
    IN [handled |-> TRUE, req |-> req, at |-> at, downstream |-> downstream,
        user |-> IF replay THEN << >> ELSE out.user,
        events |-> IF replay THEN <<Response(401, MsgInvalid)>> ELSE out.events]

\* Express calls authMiddleware(req, res, next) at second `at`.
Invocation(req, at, downstream) ==
    LET out == authMiddleware(req, JWT_SECRET, at, downstream)
    IN [handled |-> TRUE, req |-> req, at |-> at, downstream |-> downstream,
        user |-> out.user, events |-> out.events]

Init ==
    /\ JWT_SECRET \in SecretValues
    /\ clock = 0
    /\ cur = NoInvocation
    /\ prev = NoInvocation

\* A request reaches the protected route: Express calls authMiddleware, which
\* runs to its end (it is synchronous).
HandleRequest ==
    /\ ~cur.handled
    /\ \E req \in Requests, downstream \in DownstreamOutcomes :
           cur' = Invocation(req, clock, downstream)
    /\ UNCHANGED <<JWT_SECRET, clock, prev>>

\* The request is over: its req and res objects are dropped.
Complete ==
    /\ cur.handled
    /\ cur' = NoInvocation
    /\ UNCHANGED <<JWT_SECRET, clock, prev>>

\* Time passes.
Tick ==
    /\ clock < MaxTime
    /\ clock' = clock + 1
    /\ UNCHANGED <<JWT_SECRET, cur, prev>>

Next == HandleRequest \/ Complete \/ Tick

Spec == Init /\ [][Next]_vars

\* The same server with an earlier invocation kept for comparison: prev is
\* any invocation handled before cur, with any number of others in between.
\* Requests are the usual ones: no header, or "Bearer " and a token.
BearerRequests ==
    {NoRequest} \cup
    {[present |-> TRUE, value |-> <<Lit(BearerPrefix), Jwt(t)>>] : t \in IssuedTokens \cup {GarbledToken}}

HandleRequestAfter ==
    /\ \E req \in BearerRequests, downstream \in DownstreamOutcomes :
           cur' = Invocation(req, clock, downstream)
    /\ prev' \in {prev, cur}
    /\ UNCHANGED <<JWT_SECRET, clock>>

NextPair == HandleRequestAfter \/ Tick

SpecPair == Init /\ [][NextPair]_vars

\* ------------------------------------------------- reading an invocation
RECURSIVE Count(_, _)
Count(events, kind) ==
    IF events = << >> THEN 0
    ELSE (IF Head(events).kind = kind THEN 1 ELSE 0) + Count(Tail(events), kind)
NextCalls(r) == Count(r.events, "next")
VerifyCalls(r) == Count(r.events, "verify")
Responses(r) == SelectSeq(r.events, LAMBDA e : e.kind = "response")
\* The token string handed to jwt.verify, as a sequence (empty when none was).
VerifyArgs(r) == SelectSeq(r.events, LAMBDA e : e.kind = "verify")

\* What the guard did up to its verdict: everything up to and including the
\* first next() or response.
RECURSIVE UpToVerdict(_)
UpToVerdict(events) ==
    IF events = << >> THEN << >>
    ELSE IF Head(events).kind \in {"next", "response"} THEN <<Head(events)>>
    ELSE <<Head(events)>> \o UpToVerdict(Tail(events))

\* The request presents the token in the header, as "Bearer <token>" or bare.
Carries(req, tok) ==
    req.present /\ req.value \in {<<Lit(BearerPrefix), Jwt(tok)>>, <<Jwt(tok)>>}

Rejected(r, status, message) ==
    /\ Responses(r) = <<Response(status, message)>>
    /\ NextCalls(r) = 0
    /\ r.user = << >>

\* ---------------------------------------------------------------- claims
ValidFor(c, r) ==
    /\ r.handled
    /\ JWT_SECRET # ""
    /\ Carries(r.req, jwtSign(c, JWT_SECRET))
    /\ c.exp > r.at

\* C1: a request whose token is signed with the configured secret and whose
\* expires-at is in the future succeeds: req.user holds the claims the issuer
\* encoded, field for field, next() is called exactly once and no response
\* is sent.
C1_ValidTokenSucceeds ==
    \A c \in IssuedClaims :
        ValidFor(c, cur) =>
            /\ cur.user = <<c>>
            /\ NextCalls(cur) = 1
            /\ Responses(cur) = << >>

\* C2: a token signed with a secret other than the configured one is answered
\* 401 "Access denied. Invalid token.", whatever its claims (expired ones
\* too); req.user is not set and next() is not called.
C2_WrongSecretIsInvalid ==
    \A c \in IssuedClaims, k \in SigningKeys :
        (cur.handled /\ k # JWT_SECRET /\ Carries(cur.req, jwtSign(c, k)))
            => Rejected(cur, 401, MsgInvalid)

C2_Witness ==
    /\ cur.handled
    /\ JWT_SECRET # ""
    /\ \E c \in IssuedClaims, k \in SigningKeys :
           /\ k # JWT_SECRET
           /\ Carries(cur.req, jwtSign(c, k))
           /\ c.exp < cur.at
    /\ Rejected(cur, 401, MsgInvalid)

\* C3: a token signed with the configured secret whose expires-at is strictly
\* before the verification time is answered 401 "Access denied. Token
\* expired."; req.user is not set and next() is not called.
C3_ExpiredIsExpired ==
    \A c \in IssuedClaims :
        (/\ cur.handled
         /\ JWT_SECRET # ""
         /\ Carries(cur.req, jwtSign(c, JWT_SECRET))
         /\ c.exp < cur.at)
            => Rejected(cur, 401, MsgExpired)

C3_Witness ==
    /\ cur.handled
    /\ JWT_SECRET # ""
    /\ \E c \in IssuedClaims :
           Carries(cur.req, jwtSign(c, JWT_SECRET)) /\ c.exp < cur.at
    /\ Rejected(cur, 401, MsgExpired)

\* C4: a request with no Authorization header is answered 401 "Access denied.
\* No token provided."; jwt.verify is not called, req.user stays unset and
\* next() is not called.
C4_NoHeaderIsMissing ==
    (cur.handled /\ ~cur.req.present)
        => (Rejected(cur, 401, MsgNoToken) /\ VerifyCalls(cur) = 0)

C4_Witness ==
    /\ cur.handled
    /\ ~cur.req.present
    /\ Responses(cur) = <<Response(401, MsgNoToken)>>

\* C5: the header value "Bearer " and nothing else is answered 401 "Access
\* denied. Invalid token format."; jwt.verify is not called and next() is
\* not called.
C5_BarePrefixIsMalformed ==
    (cur.handled /\ cur.req.present /\ cur.req.value = <<Lit(BearerPrefix)>>)
        => (Rejected(cur, 401, MsgFormat) /\ VerifyCalls(cur) = 0)

C5_Witness ==
    /\ cur.handled
    /\ cur.req.present
    /\ cur.req.value = <<Lit(BearerPrefix)>>
    /\ Responses(cur) = <<Response(401, MsgFormat)>>

\* C6: with the secret empty or unset, a verification that fails is answered
\* 500 "Server error during authentication.", not 401.
C6_EmptySecretIsServerError ==
    (cur.handled /\ JWT_SECRET = "" /\ VerifyCalls(cur) = 1 /\ cur.user = << >>)
        => Responses(cur) = <<Response(500, MsgServer)>>

\* C7: with a secret configured, no header value is answered 500: a request
\* the guard rejects gets one of the four 401 rejections, and a rejection
\* by jwt.verify other than expiry gets "Access denied. Invalid token.".
C7_NoServerErrorFromHeader ==
    (cur.handled /\ JWT_SECRET # "" /\ NextCalls(cur) = 0)
        => /\ Len(Responses(cur)) = 1
           /\ Responses(cur)[1].status = 401
           /\ Responses(cur)[1].message \in {MsgNoToken, MsgFormat, MsgInvalid, MsgExpired}
           /\ (VerifyCalls(cur) = 1 /\ Responses(cur)[1].message # MsgExpired)
                  => Responses(cur)[1].message = MsgInvalid

\* C8: an invocation ends in exactly one outcome: next() called once with the
\* identity attached and no response sent, or exactly one response sent and
\* next() never called; no response follows a call of next(), also when
\* the downstream handler fails.
C8_OneTerminalOutcome ==
    cur.handled =>
        \/ (NextCalls(cur) = 1 /\ cur.user # << >> /\ Responses(cur) = << >>)
        \/ (NextCalls(cur) = 0 /\ Len(Responses(cur)) = 1)

C10_OnlyLeadingPrefixStripped ==
    (cur.handled /\ cur.req.present /\ cur.req.value # << >>)
        => /\ ~StartsWith(cur.req.value, BearerPrefix)
                  => VerifyArgs(cur) = <<VerifyCall(cur.req.value)>>
           /\ (StartsWith(cur.req.value, BearerPrefix) /\ Len(cur.req.value) > 1)
                  => VerifyArgs(cur) = <<VerifyCall(Tail(cur.req.value))>>
====
